---- MODULE Spec2Model ----
(***************************************************************************)
(* A model of tinykaboom-rs (src/src/main.rs): the sphere tracer, the      *)
(* displaced-sphere distance field, the fire palette, the parallel         *)
(* framebuffer fill and the PNG save stage of main.                        *)
(*                                                                         *)
(* f32 values are modelled as fixed-point integers: the real number x is   *)
(* the integer x * S.  Every formula of the source is evaluated in that    *)
(* arithmetic, operation by operation, in the order the source evaluates  *)
(* it; products and quotients round towards minus infinity.  The rays and  *)
(* palette arguments the model runs on keep every intermediate value       *)
(* within 32 bits.                                                         *)
(***************************************************************************)
EXTENDS Integers, Sequences, FiniteSets, TLC

\* The fixed-point scale: four decimal digits.
S == 10 * 1000

----------------------------------------------------------------------------
(* Evaluation order                                                        *)

\* F(e), F(a, b) and F(a, b, c) with the arguments evaluated once, before F:
\* Rust evaluates the operands of a call and the right-hand side of a `let`
\* once, where a TLA+ definition stands for its text.
Let(e, F(_)) == CHOOSE y \in {F(x) : x \in {e}} : TRUE

Let2(a, b, F(_, _)) == CHOOSE y \in {F(x[1], x[2]) : x \in {<<a, b>>}} : TRUE

Let3(a, b, c, F(_, _, _)) ==
    CHOOSE y \in {F(x[1], x[2], x[3]) : x \in {<<a, b, c>>}} : TRUE

----------------------------------------------------------------------------
(* f32 arithmetic                                                          *)

Abs(a) == IF a < 0 THEN -a ELSE a

\* f32::max and f32::min on two numbers.
Max(a, b) == Let2(a, b, LAMBDA x, y : IF x >= y THEN x ELSE y)

Min(a, b) == Let2(a, b, LAMBDA x, y : IF x <= y THEN x ELSE y)

\* The product of a factor of any size and a factor below 21.0.  The large
\* factor is split so that no intermediate product leaves the 32-bit range.
MulSplit(big, small) == (big \div S) * small + ((big % S) * small) \div S

\* a * b
Mul(a, b) ==
    Let2(a, b, LAMBDA x, y :
        IF Abs(x) >= Abs(y) THEN MulSplit(x, y) ELSE MulSplit(y, x))

\* a / b
Div(a, b) == (a * S) \div b

RECURSIVE Newton(_, _)
\* The integer square root of n by Newton's iteration, from a guess x above it.
Newton(n, x) ==
    Let((x + n \div x) \div 2, LAMBDA y : IF y >= x THEN x ELSE Newton(n, y))

\* floor(sqrt(n)) of a natural number.
Isqrt(n) == Let(n, LAMBDA m : IF m < 2 THEN m ELSE Newton(m, m \div 2 + 1))

\* f32::sin of a scaled angle in [-pi/2, pi/2]: the odd polynomial
\* x - x^3/6 + x^5/120 - x^7/5040.
SinPoly(a) ==
    Let(a, LAMBDA x :
    Let(Mul(x, x), LAMBDA x2 :
    Let(Mul(x2, x), LAMBDA x3 :
    Let(Mul(x3, x2), LAMBDA x5 :
        x - x3 \div 6 + x5 \div 120 - Mul(x5, x2) \div 5040))))

\* f32::sin of a scaled angle in [0, 2*pi), reduced to [-pi/2, pi/2].
SinReduced(a) ==
    Let(a, LAMBDA x :
        IF x <= 15708 THEN SinPoly(x)
        ELSE IF x <= 47124 THEN SinPoly(31416 - x)
        ELSE SinPoly(x - 62832))

\* f32::sin of the whole number n (radians).  710 = 113 * 2*pi + 0.00006029,
\* so n = 710 q + r is congruent to r + 0.00006029 q modulo 2*pi.
Sin(n) ==
    Let(n, LAMBDA m :
        SinReduced(((m % 710) * S + ((m \div 710) * 6029) \div S) % 62832))

----------------------------------------------------------------------------
(* Vec3f = cgmath::Vector3<f32>                                            *)

Vec3f(x, y, z) == <<x, y, z>>

VAdd(a, b) ==
    Let2(a, b, LAMBDA u, v : <<u[1] + v[1], u[2] + v[2], u[3] + v[3]>>)

VSub(a, b) ==
    Let2(a, b, LAMBDA u, v : <<u[1] - v[1], u[2] - v[2], u[3] - v[3]>>)

\* v * t
VScale(a, b) ==
    Let2(a, b, LAMBDA v, t : <<Mul(v[1], t), Mul(v[2], t), Mul(v[3], t)>>)

\* u.dot(v)
Dot(a, b) ==
    Let2(a, b, LAMBDA u, v : Mul(u[1], v[1]) + Mul(u[2], v[2]) + Mul(u[3], v[3]))

\* v.magnitude().  A vector too long for its squares to fit is measured at a
\* coarser grain k, as a float of limited mantissa would.
Magnitude(a) ==
    Let(a, LAMBDA v :
    Let(Max(Abs(v[1]), Max(Abs(v[2]), Abs(v[3]))) \div (2 * S) + 1, LAMBDA k :
    Let3(v[1] \div k, v[2] \div k, v[3] \div k, LAMBDA x, y, z :
        k * Isqrt(x * x + y * y + z * z))))

\* The value of v.normalize() when v has magnitude 0: every component is NaN,
\* a vector that holds no number.
NaNVec == <<>>

IsNaN(v) == Len(v) = 0

\* v.normalize()
Normalize(a) ==
    Let(a, LAMBDA v :
    Let(Magnitude(v), LAMBDA m :
        IF m = 0 THEN NaNVec
        ELSE <<Div(v[1], m), Div(v[2], m), Div(v[3], m)>>))

----------------------------------------------------------------------------
(* The scene                                                               *)

SPHERE_RADIUS == 15 * 1000

NOISE_AMPLITUDE == 2 * 1000

\* The clamp t.min(1.).max(0.) of lerp and palette_fire.
Saturate(t) == Max(Min(t, S), 0)

\* lerp on numbers: v0 + (v1 - v0) * t.min(1.).max(0.)
lerp(a, b, t) == Let2(a, b, LAMBDA v0, v1 : v0 + Mul(v1 - v0, Saturate(t)))

\* lerp on Vec3f.
lerpV(a, b, t) ==
    Let2(a, b, LAMBDA v0, v1 : VAdd(v0, VScale(VSub(v1, v0), Saturate(t))))

\* hash of the whole number n: x = sin(n) * 43758.5453, then x - floor(x).
hash(n) == Let(Sin(n), LAMBDA s : (s * 43758 + (s * 5453) \div S) % S)

noise(a) ==
    Let(a, LAMBDA x :
    Let3(<<x[1] \div S, x[2] \div S, x[3] \div S>>,
         <<x[1] % S, x[2] % S, x[3] % S>>,
         <<3 * S, 3 * S, 3 * S>>, LAMBDA p, f0, three :
    Let2(VScale(f0, Dot(f0, VSub(three, VScale(f0, 2 * S)))),
         p[1] + 57 * p[2] + 113 * p[3], LAMBDA f, n :
        lerp(lerp(lerp(hash(n), hash(n + 1), f[1]),
                  lerp(hash(n + 57), hash(n + 58), f[1]),
                  f[2]),
             lerp(lerp(hash(n + 113), hash(n + 114), f[1]),
                  lerp(hash(n + 170), hash(n + 171), f[1]),
                  f[2]),
             f[3]))))

rotate(a) ==
    Let(a, LAMBDA v :
        <<Dot(<<0, 8000, 6000>>, v),
          Dot(<<-8000, 3600, -4800>>, v),
          Dot(<<-6000, -4800, 6400>>, v)>>)

fractal_brownian_motion(a) ==
    Let(rotate(a), LAMBDA p1 :
    Let2(Mul(5000, noise(p1)), VScale(p1, 23200), LAMBDA f1, p2 :
    Let2(f1 + Mul(2500, noise(p2)), VScale(p2, 30300), LAMBDA f2, p3 :
    Let2(f2 + Mul(1250, noise(p3)), VScale(p3, 26100), LAMBDA f3, p4 :
        Div(f3 + Mul(625, noise(p4)), 9375)))))

signed_distance(a) ==
    Let(a, LAMBDA p :
    Let(Mul(-fractal_brownian_motion(VScale(p, 34000)), NOISE_AMPLITUDE),
        LAMBDA displacement :
        Magnitude(p) - (SPHERE_RADIUS + displacement)))

\* The five control colors of palette_fire.
YELLOW == Vec3f(17000, 13000, 10000)

ORANGE == Vec3f(10000, 6000, 0)

RED == Vec3f(10000, 0, 0)

DARKGREY == Vec3f(2000, 2000, 2000)

GRAY == Vec3f(4000, 4000, 4000)

\* palette_fire with the second sub-range's parameter not rebased (x*4, not x*4 - 1).
palette_fire_unrebased(d) ==
    Let(Max(Min(d, S), 0), LAMBDA x :
        IF x < 2500 THEN lerpV(GRAY, DARKGREY, Mul(x, 4 * S))
        ELSE IF x < 5000 THEN lerpV(DARKGREY, RED, Mul(x, 4 * S))
        ELSE IF x < 7500 THEN lerpV(RED, ORANGE, Mul(x, 4 * S) - 2 * S)
        ELSE lerpV(ORANGE, YELLOW, Mul(x, 4 * S) - 3 * S))

palette_fire(d) ==
    Let(Max(Min(d, S), 0), LAMBDA x :
        IF x < 2500 THEN lerpV(GRAY, DARKGREY, Mul(x, 4 * S))
        ELSE IF x < 5000 THEN lerpV(DARKGREY, RED, Mul(x, 4 * S) - S)
        ELSE IF x < 7500 THEN lerpV(RED, ORANGE, Mul(x, 4 * S) - 2 * S)
        ELSE lerpV(ORANGE, YELLOW, Mul(x, 4 * S) - 3 * S))

----------------------------------------------------------------------------
(* sphere_trace                                                            *)

\* Option<Vec3f>: None, or Some(pos) as the one-element sequence <<pos>>.
None == <<>>

Some(v) == <<v>>

\* The number of iterations of the marching loop, 0..128.
MaxIterations == 128

\* The early discard with the radius left unsquared.
EarlyDiscardUnsquared(o, d) ==
    Let(Dot(o, d), LAMBDA od : Dot(o, o) - Mul(od, od) > SPHERE_RADIUS)

\* The early discard test: orig.dot(orig) - orig.dot(dir).powi(2) > SPHERE_RADIUS.powi(2)
EarlyDiscard(o, d) ==
    Let(Dot(o, d), LAMBDA od :
        Dot(o, o) - Mul(od, od) > Mul(SPHERE_RADIUS, SPHERE_RADIUS))

\* The loop range taken one iteration too far (0..=128).
LoopExhaustedInclusive(i) == i > MaxIterations

\* The range 0..128 is exhausted once i iterations have run.
LoopExhausted(i) == i >= MaxIterations

\* The step without its floor.
StepLenUnfloored(d) == Mul(d, 1000)

\* The length of one advance: (d * 0.1).max(0.01)
StepLen(d) == Max(Mul(d, 1000), 100)

\* pos += dir * step
Advanced(p, d, sd) == VAdd(p, VScale(d, StepLen(sd)))

\* One iteration of the loop on <<pos, returned>>, where `returned` is None
\* until the loop has returned Some(pos); a loop that has returned runs no more.
LoopBody(st, d) ==
    IF st[2] /= None THEN st
    ELSE Let(signed_distance(st[1]), LAMBDA sd :
             IF sd < 0 THEN <<st[1], Some(st[1])>>
             ELSE <<Advanced(st[1], d, sd), None>>)

RECURSIVE Iterations(_, _, _)
\* n successive iterations of the loop from st: the first half, then the rest.
Iterations(st, d, n) ==
    IF n = 0 THEN st
    ELSE IF n = 1 THEN LoopBody(st, d)
    ELSE Let(Iterations(st, d, n \div 2), LAMBDA mid :
             Iterations(mid, d, n - n \div 2))

\* The loop `for _i in 0..128` of sphere_trace from orig, and the None after it.
March(o, d) == Let2(o, d, LAMBDA p, u : Iterations(<<p, None>>, u, MaxIterations)[2])

sphere_trace(o, d) == IF EarlyDiscard(o, d) THEN None ELSE March(o, d)

distance_field_normal(pos) ==
    Let2(pos, 1000, LAMBDA p, EPS :
    Let(signed_distance(p), LAMBDA d :
    Let3(signed_distance(VAdd(p, Vec3f(EPS, 0, 0))) - d,
         signed_distance(VAdd(p, Vec3f(0, EPS, 0))) - d,
         signed_distance(VAdd(p, Vec3f(0, 0, EPS))) - d, LAMBDA nx, ny, nz :
        Normalize(Vec3f(nx, ny, nz)))))

----------------------------------------------------------------------------
(* The per-pixel closure of main                                           *)

\* The image is rendered at a reduced size (the source renders 640 x 480).
WIDTH == 3

HEIGHT == 2

Cells == 0 .. (WIDTH * HEIGHT - 1)

\* FOV = PI / 3
FOV == 31416 \div 3

\* f32::tan
Tan(a) == Div(SinReduced(a), SinReduced(a + 15708))

\* The column decoded modulo the height.
PixelIByHeight(index) == index % HEIGHT

\* let i = index % WIDTH
PixelI(index) == index % WIDTH

\* let j = (index - i) / WIDTH
PixelJ(index) == (index - PixelI(index)) \div WIDTH

\* The camera position.
Camera == Vec3f(0, 0, 3 * S)

\* The primary ray of a cell: (dir_x, dir_y, dir_z).normalize()
PixelDir(index) ==
    Let3((PixelI(index) * S + S \div 2) - (WIDTH * S) \div 2,
         -(PixelJ(index) * S + S \div 2) + (HEIGHT * S) \div 2,
         Div(-(HEIGHT * S), Mul(2 * S, Tan(FOV \div 2))),
         LAMBDA dir_x, dir_y, dir_z : Normalize(Vec3f(dir_x, dir_y, dir_z)))

Background == Vec3f(2000, 7000, 8000)

\* 0.4_f32.max(light_dir.dot(normal)); f32::max returns the other operand
\* when one is NaN.
LightIntensity(hit) ==
    Let2(Normalize(VSub(Vec3f(10 * S, 10 * S, 10 * S), hit)),
         distance_field_normal(hit), LAMBDA light_dir, normal :
        IF IsNaN(normal) \/ IsNaN(light_dir) THEN 4000
        ELSE Max(4000, Dot(light_dir, normal)))

\* The color of a hit: palette_fire((-0.2 + noise_level) * 2.) * light_intensity
HitColor(hit) ==
    Let(Div(SPHERE_RADIUS - Magnitude(hit), NOISE_AMPLITUDE), LAMBDA noise_level :
        VScale(palette_fire(Mul(-2000 + noise_level, 2 * S)), LightIntensity(hit)))

\* clamp with the product rounded to the nearest integer.
clampRounded(val) == (2 * 255 * Saturate(val) + S) \div (2 * S)

\* clamp: (255. * val.max(0.).min(1.)) as u8
clamp(val) == (255 * Min(Max(val, 0), S)) \div S

\* sphere_trace of every cell's primary ray, and the color of every hit point
\* among them: the values the closure computes, tabulated once.
PixelHit == [index \in Cells |-> sphere_trace(Camera, PixelDir(index))]

HitPoints == {PixelHit[index][1] : index \in {c \in Cells : PixelHit[c] /= None}}

HitColors == [p \in HitPoints |-> HitColor(p)]

\* The closure's branches with the ambient light floor applied to a miss too.
ShadeLitBackground(h) == IF h = None THEN VScale(Background, 4000) ELSE HitColors[h[1]]

\* The value the closure stores in its cell for the outcome h of sphere_trace.
Shade(h) == IF h = None THEN Background ELSE HitColors[h[1]]

----------------------------------------------------------------------------
(* The state                                                               *)

\* The threads of the pool that runs the parallel iterator.
Workers == {"w1", "w2"}

\* The rays sphere_trace is called on when it is exercised alone: the primary
\* rays of the cells, and rays from inside, on and outside the sphere.
Rays ==
    {<<Camera, PixelDir(c)>> : c \in Cells}
    \cup {<<Camera, Vec3f(0, 0, -S)>>,
          <<Camera, Vec3f(S, 0, 0)>>,
          <<Camera, Normalize(Vec3f(0, 4900, -8718))>>,
          <<Vec3f(0, 0, 0), Vec3f(0, 0, -S)>>,
          <<Vec3f(0, 0, 13000), Vec3f(S, 0, 0)>>,
          <<Vec3f(0, 0, 15000), Vec3f(0, 0, -S)>>,
          <<Vec3f(0, 4635, 14265), Vec3f(0, -S, 0)>>}

\* The arguments palette_fire is called on when it is exercised alone:
\* -0.5 to 1.5 in steps of 0.0125.
PaletteInputs == {125 * k : k \in -40 .. 120}

VARIABLES
    run,          \* the entry point this behaviour exercises
    mainpc,       \* main: the statement it is at
    pending,      \* the items of the parallel iterator not yet handed out
    wpc,          \* per worker: "idle", or "traced" inside the closure
    windex,       \* per worker: the index of its item
    whit,         \* per worker: the closure's result of sphere_trace
    framebuffer,  \* the Vec<Vec3f> of colors
    writes,       \* per cell: how many times it was stored to
    reads,        \* per cell: how many times the save loop read it
    traced,       \* per cell: the outcomes of sphere_trace computed for it
    decoded,      \* per cell: the pixel coordinates (i, j) decoded for it
    cursor,       \* the save loop: the next cell of `for v in framebuffer`
    data,         \* the Vec<u8> handed to write_image_data
    result,       \* main's return value: "running", "Ok" or "Err"
    attempts,     \* how many times each fallible call was made
    ioFailed,     \* whether a fallible call has failed
    orig, dir,    \* sphere_trace: its arguments
    tpc,          \* sphere_trace: "start", "loop", "returned" ("off": not called)
    pos,          \* sphere_trace: the marching position
    iter,         \* sphere_trace: the loop counter _i
    evals,        \* sphere_trace: the evaluations of signed_distance in the loop
    tres,         \* sphere_trace: the returned Option
    trail,        \* sphere_trace: the positions visited, in order
    pd,           \* palette_fire: its argument
    ppc,          \* palette_fire: "call", "done" ("off": not called)
    pout          \* palette_fire: the returned color

mainVars == <<mainpc, pending, wpc, windex, whit, framebuffer, writes,
              reads, traced, decoded, cursor, data, result, attempts, ioFailed>>

traceVars == <<orig, dir, tpc, pos, iter, evals, tres, trail>>

paletteVars == <<pd, ppc, pout>>

vars == <<run, mainVars, traceVars, paletteVars>>

Zero == Vec3f(0, 0, 0)

FallibleCalls == {"File::create", "write_header", "write_image_data"}

\* main before its first statement has run.
MainEntry ==
    /\ mainpc = "render"
    /\ pending = Cells
    /\ wpc = [w \in Workers |-> "idle"]
    /\ windex = [w \in Workers |-> 0]
    /\ whit = [w \in Workers |-> None]
    /\ framebuffer = [c \in Cells |-> Zero]
    /\ writes = [c \in Cells |-> 0]
    /\ reads = [c \in Cells |-> 0]
    /\ traced = [c \in Cells |-> <<>>]
    /\ decoded = [c \in Cells |-> <<>>]
    /\ cursor = 0
    /\ data = <<>>
    /\ result = "running"
    /\ attempts = [s \in FallibleCalls |-> 0]
    /\ ioFailed = FALSE

\* main is not running.
MainOff ==
    /\ mainpc = "off"
    /\ pending = {}
    /\ wpc = [w \in Workers |-> "idle"]
    /\ windex = [w \in Workers |-> 0]
    /\ whit = [w \in Workers |-> None]
    /\ framebuffer = [c \in Cells |-> Zero]
    /\ writes = [c \in Cells |-> 0]
    /\ reads = [c \in Cells |-> 0]
    /\ traced = [c \in Cells |-> <<>>]
    /\ decoded = [c \in Cells |-> <<>>]
    /\ cursor = 0
    /\ data = <<>>
    /\ result = "running"
    /\ attempts = [s \in FallibleCalls |-> 0]
    /\ ioFailed = FALSE

TraceOff ==
    /\ orig = Zero /\ dir = Zero /\ pos = Zero
    /\ tpc = "off" /\ iter = 0 /\ evals = 0 /\ tres = None /\ trail = <<>>

PaletteOff == pd = 0 /\ ppc = "off" /\ pout = Zero

InitMain == run = "main" /\ MainEntry /\ TraceOff /\ PaletteOff

InitTrace ==
    /\ run = "sphere_trace"
    /\ MainOff /\ PaletteOff
    /\ \E r \in Rays : orig = r[1] /\ dir = r[2]
    /\ pos = Zero /\ tpc = "start" /\ iter = 0 /\ evals = 0
    /\ tres = None /\ trail = <<>>

InitPalette ==
    /\ run = "palette_fire"
    /\ MainOff /\ TraceOff
    /\ pd \in PaletteInputs /\ ppc = "call" /\ pout = Zero

Init == InitMain \/ InitTrace \/ InitPalette

----------------------------------------------------------------------------
(* main: the render pass (par_iter_mut().enumerate().for_each)             *)

\* A worker is handed an item the iterator hands out a second time.
ClaimKept(w) ==
    /\ mainpc = "render"
    /\ wpc[w] = "idle"
    /\ \E index \in pending :
        /\ windex' = [windex EXCEPT ![w] = index]
        /\ whit' = [whit EXCEPT ![w] = PixelHit[index]]
        /\ traced' = [traced EXCEPT ![index] = Append(@, PixelHit[index])]
        /\ decoded' = [decoded EXCEPT ![index] = Append(@, <<PixelI(index), PixelJ(index)>>)]
    /\ wpc' = [wpc EXCEPT ![w] = "traced"]
    /\ UNCHANGED <<run, mainpc, pending, framebuffer, writes, reads, cursor,
                   data, result, attempts, ioFailed, traceVars, paletteVars>>

\* A worker is handed one item (index, buffer) of the iterator, decodes the
\* pixel and traces its primary ray.
Claim(w) ==
    /\ mainpc = "render"
    /\ wpc[w] = "idle"
    /\ \E index \in pending :
        /\ pending' = pending \ {index}
        /\ windex' = [windex EXCEPT ![w] = index]
        /\ whit' = [whit EXCEPT ![w] = PixelHit[index]]
        /\ traced' = [traced EXCEPT ![index] = Append(@, PixelHit[index])]
        /\ decoded' = [decoded EXCEPT ![index] = Append(@, <<PixelI(index), PixelJ(index)>>)]
    /\ wpc' = [wpc EXCEPT ![w] = "traced"]
    /\ UNCHANGED <<run, mainpc, framebuffer, writes, reads, cursor, data,
                   result, attempts, ioFailed, traceVars, paletteVars>>

\* The store blended with the cell to the left, when that cell holds a color.
StoreBlended(w) ==
    /\ mainpc = "render"
    /\ wpc[w] = "traced"
    /\ LET index == windex[w]
           left  == IF index > 0 THEN index - 1 ELSE index
           own   == Shade(whit[w])
       IN  /\ framebuffer' = [framebuffer EXCEPT ![index] =
                                 IF writes[left] > 0
                                 THEN VScale(VAdd(own, framebuffer[left]), 5000)
                                 ELSE own]
           /\ writes' = [writes EXCEPT ![index] = @ + 1]
    /\ wpc' = [wpc EXCEPT ![w] = "idle"]
    /\ windex' = [windex EXCEPT ![w] = 0]
    /\ whit' = [whit EXCEPT ![w] = None]
    /\ UNCHANGED <<run, mainpc, pending, reads, traced, decoded, cursor, data, result,
                   attempts, ioFailed, traceVars, paletteVars>>

\* The closure's store `*buffer = ...`, which ends the item.
Store(w) ==
    /\ mainpc = "render"
    /\ wpc[w] = "traced"
    /\ LET index == windex[w]
       IN  /\ framebuffer' = [framebuffer EXCEPT ![index] = Shade(whit[w])]
           /\ writes' = [writes EXCEPT ![index] = @ + 1]
    /\ wpc' = [wpc EXCEPT ![w] = "idle"]
    /\ windex' = [windex EXCEPT ![w] = 0]
    /\ whit' = [whit EXCEPT ![w] = None]
    /\ UNCHANGED <<run, mainpc, pending, reads, traced, decoded, cursor, data, result,
                   attempts, ioFailed, traceVars, paletteVars>>

\* for_each returns once every item has been processed.
Join ==
    /\ mainpc = "render"
    /\ pending = {}
    /\ \A w \in Workers : wpc[w] = "idle"
    /\ mainpc' = "create"
    /\ UNCHANGED <<run, pending, wpc, windex, whit, framebuffer, writes, reads,
                   traced, decoded, cursor, data, result, attempts, ioFailed,
                   traceVars, paletteVars>>

----------------------------------------------------------------------------
(* main: the save stage                                                    *)

saveUnchanged == <<run, pending, wpc, windex, whit, framebuffer, writes,
                   traced, decoded, traceVars, paletteVars>>

\* A fallible call succeeds and main goes on to `next`.
CallOk(call, at, next) ==
    /\ mainpc = at
    /\ attempts' = [attempts EXCEPT ![call] = @ + 1]
    /\ mainpc' = next
    /\ UNCHANGED <<ioFailed, result, reads, cursor, data>>

\* A fallible call fails: `?` returns the error from main.
CallFail(call, at) ==
    /\ mainpc = at
    /\ attempts' = [attempts EXCEPT ![call] = @ + 1]
    /\ ioFailed' = TRUE
    /\ result' = "Err"
    /\ mainpc' = "done"
    /\ UNCHANGED <<reads, cursor, data>>

CreateOk == CallOk("File::create", "create", "header") /\ UNCHANGED saveUnchanged

\* The error of File::create dropped instead of returned.
CreateFailIgnored ==
    /\ mainpc = "create"
    /\ attempts' = [attempts EXCEPT !["File::create"] = @ + 1]
    /\ ioFailed' = TRUE
    /\ mainpc' = "header"
    /\ UNCHANGED <<result, reads, cursor, data>>
    /\ UNCHANGED saveUnchanged

CreateFail == CallFail("File::create", "create") /\ UNCHANGED saveUnchanged

HeaderOk == CallOk("write_header", "header", "quantize") /\ UNCHANGED saveUnchanged

HeaderFail == CallFail("write_header", "header") /\ UNCHANGED saveUnchanged

\* One iteration of `for v in framebuffer`: four bytes pushed.
PushCell ==
    /\ mainpc = "quantize"
    /\ cursor < WIDTH * HEIGHT
    /\ LET v == framebuffer[cursor]
       IN  data' = data \o <<clamp(v[1]), clamp(v[2]), clamp(v[3]), 255>>
    /\ reads' = [reads EXCEPT ![cursor] = @ + 1]
    /\ cursor' = cursor + 1
    /\ UNCHANGED <<mainpc, result, attempts, ioFailed>>
    /\ UNCHANGED saveUnchanged

\* write_image_data succeeds and main returns Ok(()).
WriteDataOk ==
    /\ mainpc = "quantize"
    /\ cursor = WIDTH * HEIGHT
    /\ attempts' = [attempts EXCEPT !["write_image_data"] = @ + 1]
    /\ result' = "Ok"
    /\ mainpc' = "done"
    /\ UNCHANGED <<ioFailed, reads, cursor, data>>
    /\ UNCHANGED saveUnchanged

WriteDataFail ==
    /\ cursor = WIDTH * HEIGHT
    /\ CallFail("write_image_data", "quantize")
    /\ UNCHANGED saveUnchanged

----------------------------------------------------------------------------
(* sphere_trace, one step at a time                                        *)

traceUnchanged == <<run, mainVars, paletteVars, orig, dir>>

\* The early discard returns None.
TraceDiscard ==
    /\ tpc = "start"
    /\ EarlyDiscard(orig, dir)
    /\ tres' = None
    /\ tpc' = "returned"
    /\ UNCHANGED <<pos, iter, evals, trail>>
    /\ UNCHANGED traceUnchanged

\* let mut pos = orig
TraceEnter ==
    /\ tpc = "start"
    /\ ~EarlyDiscard(orig, dir)
    /\ pos' = orig
    /\ trail' = <<orig>>
    /\ tpc' = "loop"
    /\ UNCHANGED <<iter, evals, tres>>
    /\ UNCHANGED traceUnchanged

\* An iteration that finds d < 0 and returns Some(pos).
TraceHit ==
    /\ tpc = "loop"
    /\ ~LoopExhausted(iter)
    /\ signed_distance(pos) < 0
    /\ evals' = evals + 1
    /\ tres' = Some(pos)
    /\ tpc' = "returned"
    /\ UNCHANGED <<pos, iter, trail>>
    /\ UNCHANGED traceUnchanged

\* An iteration that finds d >= 0 and advances.
TraceAdvance ==
    /\ tpc = "loop"
    /\ ~LoopExhausted(iter)
    /\ \E d \in {signed_distance(pos)} :
        /\ d >= 0
        /\ \E q \in {Advanced(pos, dir, d)} :
            /\ pos' = q
            /\ trail' = Append(trail, q)
    /\ evals' = evals + 1
    /\ iter' = iter + 1
    /\ UNCHANGED <<tpc, tres>>
    /\ UNCHANGED traceUnchanged

\* The loop ends without a hit: None.
TraceExhausted ==
    /\ tpc = "loop"
    /\ LoopExhausted(iter)
    /\ tres' = None
    /\ tpc' = "returned"
    /\ UNCHANGED <<pos, iter, evals, trail>>
    /\ UNCHANGED traceUnchanged

----------------------------------------------------------------------------
(* palette_fire                                                            *)

PaletteCall ==
    /\ ppc = "call"
    /\ pout' = palette_fire(pd)
    /\ ppc' = "done"
    /\ UNCHANGED <<run, mainVars, traceVars, pd>>

----------------------------------------------------------------------------

Next ==
    \/ \E w \in Workers : Claim(w)
    \/ \E w \in Workers : Store(w)
    \/ Join
    \/ CreateOk
    \/ CreateFail
    \/ HeaderOk
    \/ HeaderFail
    \/ PushCell
    \/ WriteDataOk
    \/ WriteDataFail
    \/ TraceDiscard
    \/ TraceEnter
    \/ TraceHit
    \/ TraceAdvance
    \/ TraceExhausted
    \/ PaletteCall

Spec == Init /\ [][Next]_vars

\* Every thread that can take a step eventually takes one: the pool's threads
\* and main are scheduled by the operating system, and no step blocks.
FairSpec == Spec /\ WF_vars(Next)

----------------------------------------------------------------------------
(* Properties                                                              *)

NumCells == WIDTH * HEIGHT

Busy(w) == wpc[w] /= "idle"

\* C1: in the parallel fill every cell is stored to exactly once, by one unit
\* of work (no two workers ever hold the same cell, and a held cell has not
\* been stored to), and the save loop reads a cell only after the render pass
\* has stored to every cell.
C1_WrittenOnceBeforeRead ==
    /\ \A c \in Cells : writes[c] <= 1
    /\ \A w \in Workers : Busy(w) => writes[windex[w]] = 0 /\ windex[w] \notin pending
    /\ \A w1, w2 \in Workers : Busy(w1) /\ Busy(w2) /\ w1 /= w2 => windex[w1] /= windex[w2]
    /\ \A c \in Cells : c \in pending => writes[c] = 0
    /\ mainpc \notin {"render", "off"} => \A c \in Cells : writes[c] = 1
    /\ \A c \in Cells : reads[c] > 0 =>
           /\ reads[c] = 1
           /\ mainpc \notin {"render", "off"}
           /\ \A k \in Cells : writes[k] = 1

\* The save loop has read every cell, each stored to once by the render pass.
C1_Witness ==
    /\ run = "main"
    /\ cursor = NumCells
    /\ \A c \in Cells : writes[c] = 1 /\ reads[c] = 1

RECURSIVE FillFrom(_, _)
\* The framebuffer after the closure has run on the cells index, index + 1,
\* ... in order, one at a time.
FillFrom(fb, index) ==
    IF index = NumCells THEN fb
    ELSE FillFrom([fb EXCEPT ![index] = Shade(PixelHit[index])], index + 1)

SequentialFramebuffer == FillFrom([c \in Cells |-> Zero], 0)

RECURSIVE BytesFrom(_, _)
BytesFrom(fb, index) ==
    IF index = NumCells THEN <<>>
    ELSE <<clamp(fb[index][1]), clamp(fb[index][2]), clamp(fb[index][3]), 255>>
         \o BytesFrom(fb, index + 1)

SequentialData == BytesFrom(SequentialFramebuffer, 0)

\* C2: whatever the schedule of the workers, every stored cell holds the color
\* the one-at-a-time, in-order fill gives it, and the bytes handed to the
\* encoder are those of the in-order fill.
C2_ScheduleIndependent ==
    /\ \A c \in Cells : writes[c] > 0 => framebuffer[c] = SequentialFramebuffer[c]
    /\ mainpc = "done" /\ result = "Ok" => data = SequentialData

\* A schedule that is not the in-order one: the last cell is stored before
\* the first.
C2_Witness ==
    /\ run = "main"
    /\ writes[NumCells - 1] = 1
    /\ writes[0] = 0

\* orig.dot(orig) <= SPHERE_RADIUS^2: the origin is inside the undisplaced sphere.
InsideSphere(o) == Dot(o, o) <= Mul(SPHERE_RADIUS, SPHERE_RADIUS)

Pushed == {<<framebuffer[c][k], data[4 * c + k]>> : c \in 0 .. (cursor - 1), k \in 1 .. 3}

\* C4 as stated: each byte is 255 * clamp(c, 0, 1) rounded to the nearest
\* integer: |2 * (255 c - b)| <= 1, a half rounding up.
C4_RoundedToNearest ==
    \A p \in Pushed :
        LET x == 255 * Max(0, Min(p[1], S))
        IN  2 * p[2] * S - S <= 2 * x /\ 2 * x < 2 * p[2] * S + S

\* C4, amended: each byte is 255 * clamp(c, 0, 1) with its fractional part
\* dropped (b <= 255 c < b + 1), and every fourth byte is 255.
C4_Truncated ==
    /\ Len(data) = 4 * cursor
    /\ \A p \in Pushed :
        LET x == 255 * Max(0, Min(p[1], S))
        IN  p[2] * S <= x /\ x < (p[2] + 1) * S
    /\ \A c \in 0 .. (cursor - 1) : data[4 * c + 4] = 255

\* A byte has been pushed for a component whose product has a fractional part
\* of at least one half.
C4_Witness ==
    \E p \in Pushed : p[1] > 0 /\ p[1] < S /\ 2 * ((255 * p[1]) % S) >= S

\* The largest difference of a component between two palette values whose
\* arguments are 0.0125 apart: four times 0.0125 times the largest difference
\* of a component between adjacent control colors (1.0), and the rounding.
MaxPaletteStep == 500 + 2

\* C5: palette_fire passes through the five control colors at 0, 0.25, 0.5,
\* 0.75 and 1; at each boundary the lower sub-range's interpolation (at local
\* parameter x*4 - k = 1) reaches the value the upper one starts from; below
\* 0 it is gray and above 1 yellow; between two control points every
\* component lies between theirs, and it has no jump.
C5_PaletteRamp ==
    ppc = "done" =>
        /\ pd <= 0 => pout = GRAY
        /\ pd = 2500 => pout = DARKGREY /\ pout = lerpV(GRAY, DARKGREY, 4 * pd)
        /\ pd = 5000 => pout = RED /\ pout = lerpV(DARKGREY, RED, 4 * pd - S)
        /\ pd = 7500 => pout = ORANGE /\ pout = lerpV(RED, ORANGE, 4 * pd - 2 * S)
        /\ pd >= S => pout = YELLOW /\ pout = lerpV(ORANGE, YELLOW, 4 * S - 3 * S)
        /\ \A k \in 1 .. 3 :
            /\ pd >= 0 /\ pd <= 2500 =>
                   pout[k] >= DARKGREY[k] /\ pout[k] <= GRAY[k]
            /\ pd >= 2500 /\ pd <= 5000 =>
                   pout[k] >= Min(DARKGREY[k], RED[k]) /\ pout[k] <= Max(DARKGREY[k], RED[k])
            /\ pd >= 5000 /\ pd <= 7500 =>
                   pout[k] >= RED[k] /\ pout[k] <= ORANGE[k]
            /\ pd >= 7500 /\ pd <= S =>
                   pout[k] >= ORANGE[k] /\ pout[k] <= YELLOW[k]
            /\ Abs(pout[k] - palette_fire(pd - 125)[k]) <= MaxPaletteStep

\* palette_fire has been called on the boundary 0.25 and returned dark gray.
C5_Witness == ppc = "done" /\ pd = 2500 /\ pout = DARKGREY

\* C6: a stored cell whose ray sphere_trace returned None for holds exactly
\* (0.2, 0.7, 0.8); a stored cell whose ray it returned a hit for holds the
\* palette color of the hit times its light intensity; so a cell holds
\* anything but the background only after a hit.
C6_MissIsBackground ==
    \A c \in Cells : writes[c] > 0 =>
        /\ Len(traced[c]) >= 1
        /\ traced[c][1] = None => framebuffer[c] = <<2000, 7000, 8000>>
        /\ traced[c][1] /= None => framebuffer[c] = HitColors[traced[c][1][1]]
        /\ framebuffer[c] /= <<2000, 7000, 8000>> => traced[c][1] /= None

\* A cell of a miss and a cell of a hit have both been stored.
C6_Witness ==
    /\ \E c \in Cells : writes[c] > 0 /\ traced[c][1] = None
    /\ \E c \in Cells : writes[c] > 0 /\ traced[c][1] /= None

\* The behaviour's entry point has returned.
Finished == mainpc = "done" \/ tpc = "returned" \/ ppc = "done"

\* C7: sphere_trace never evaluates signed_distance more than 128 times in its
\* loop, and every call of it, and every run of main with its render pass,
\* eventually returns.
C7_Terminates == [](evals <= 128) /\ <>Finished

\* sphere_trace has returned None after exactly 128 evaluations.
C7_Witness == tpc = "returned" /\ tres = None /\ evals = 128

\* C8: once a fallible call of the save stage has failed main has returned
\* Err and is done, and a run that returns Ok had no failure; no fallible call
\* is made twice; and none is made before every cell has been stored to.
C8_FailureIsFatal ==
    /\ ioFailed => result = "Err" /\ mainpc = "done"
    /\ result = "Ok" => ~ioFailed /\ mainpc = "done"
    /\ \A s \in FallibleCalls : attempts[s] <= 1
    /\ (\E s \in FallibleCalls : attempts[s] > 0) =>
           /\ mainpc \notin {"render", "off"}
           /\ \A c \in Cells : writes[c] = 1

\* write_image_data has failed, after the two calls before it succeeded.
C8_Witness ==
    /\ ioFailed
    /\ result = "Err"
    /\ attempts = [s \in FallibleCalls |-> 1]

\* C9: the last advance of the march went from a position of distance d >= 0
\* along dir by exactly max(0.1 d, 0.01), which is at least 0.01; and a
\* returned hit is the last position visited, has negative distance, and
\* every position visited before it has distance >= 0.
C9_FirstNegative ==
    /\ Len(trail) >= 2 =>
           LET n == Len(trail)
               d == signed_distance(trail[n - 1])
               step == IF d \div 10 >= 100 THEN d \div 10 ELSE 100
           IN  /\ d >= 0
               /\ step >= 100
               /\ trail[n] = VAdd(trail[n - 1], VScale(dir, step))
    /\ tpc = "returned" /\ tres /= None =>
           /\ tres[1] = trail[Len(trail)]
           /\ signed_distance(tres[1]) < 0
           /\ \A k \in 1 .. (Len(trail) - 1) : signed_distance(trail[k]) >= 0

\* A hit has been returned after several advances, the last one by the floor
\* 0.01.
C9_Witness ==
    /\ tpc = "returned"
    /\ tres /= None
    /\ Len(trail) > 10
    /\ signed_distance(trail[Len(trail) - 1]) < 1000

\* The pixel coordinates decoded for the cells handed out so far.
Decoded == {c \in Cells : Len(decoded[c]) > 0}

\* C10: the coordinates decoded for a cell are in range and row-major
\* (i + j * WIDTH = index); no two cells decode to the same pixel; and once
\* the render pass is over every pixel of the image has been decoded.
C10_DecodeBijective ==
    /\ \A c \in Decoded :
        LET i == decoded[c][1][1]
            j == decoded[c][1][2]
        IN  /\ 0 <= i /\ i < WIDTH
            /\ 0 <= j /\ j < HEIGHT
            /\ i + j * WIDTH = c
    /\ \A c1, c2 \in Decoded : c1 /= c2 => decoded[c1][1] /= decoded[c2][1]
    /\ mainpc \notin {"render", "off"} =>
           {decoded[c][1] : c \in Decoded} = (0 .. (WIDTH - 1)) \X (0 .. (HEIGHT - 1))

\* The last cell has been decoded to the last column of the last row.
C10_Witness ==
    /\ run = "main"
    /\ Len(decoded[NumCells - 1]) > 0
    /\ decoded[NumCells - 1][1] = <<WIDTH - 1, HEIGHT - 1>>

====
